---- MODULE Spec2Model ----
(***************************************************************************)
(* Model of the zoho-time-report server: the Zoho credential handlers      *)
(* (connect / disconnect / status, in their four source variants), the     *)
(* timesheet sync handler with its storage layer, and the aggregation      *)
(* function processTimesheetData.                                          *)
(*                                                                         *)
(* Conventions.  Hours are integers (one unit = one hour); floating-point  *)
(* rounding is not modelled.  Time is a logical clock `now`; one tick is   *)
(* the token lifetime of 3600 s.  JavaScript null / undefined is Null.     *)
(* Every `await` of a handler that touches shared state ends a step, so    *)
(* two handlers interleave exactly where the event loop lets them.  The    *)
(* serial primary keys are used by the code only to find a row again, so   *)
(* they are modelled as the smallest key no live row and no handler in     *)
(* flight still refers to.  Columns filled by database defaults            *)
(* (createdAt, updatedAt) are left out.                                    *)
(***************************************************************************)
EXTENDS Integers, Sequences, FiniteSets, Bags, TLC

\* ------------------------------------------------------------------ bounds
MaxTime == 1
MaxRecords == 2
MaxInput == 3

\* ------------------------------------------------------- program constants
TokenLifetime == 1
AdminId == 1
MinPerDay == 2

Null == "null"
NoTime == -1
NoRow == 0
Users == {1, 2}
Slots == {1, 2}
Anon == 0

\* JavaScript truthiness of a text value: "" and null / undefined are falsy.
Falsy(x) == x = Null \/ x = ""

\* a || b on text values
OrElse(a, b) == IF Falsy(a) THEN b ELSE a

\* Number(x) of an absent or non-numeric field is NaN.
NaN == -1
Number(x) == x

\* a || b on numbers: 0 and NaN are falsy
OrElseNum(a, b) == IF a = 0 \/ a = NaN THEN b ELSE a

RECURSIVE SumSeq(_, _)
SumSeq(s, f) == IF s = <<>> THEN 0 ELSE s[1][f] + SumSeq(Tail(s), f)

\* ------------------------------------------------- upstream record mapping
\* `TS${Date.now() + i}`: one name per clock value t and offset i
TSNames ==
  << <<"TS0", "TS0+1", "TS0+2", "TS0+3">>, <<"TS1", "TS1+1", "TS1+2", "TS1+3">>,
     <<"TS2", "TS2+1", "TS2+2", "TS2+3">>, <<"TS3", "TS3+1", "TS3+2", "TS3+3">>,
     <<"TS4", "TS4+1", "TS4+2", "TS4+3">> >>
GeneratedId(t, i) == TSNames[t + 1][i + 1]

MapUpstreamRecord(record, t) ==
  [ timesheet_id     |-> OrElse(record.timesheetId, GeneratedId(t, 0)),
    workDate         |-> record.workDate,
    projectName      |-> OrElse(record.projectName, "Unassigned"),
    userName         |-> OrElse(record.userName, "Unknown"),
    jobName          |-> OrElse(record.jobName, OrElse(record.taskName, "General")),
    billableHours    |-> OrElseNum(Number(record.billableHours), 0),
    nonBillableHours |-> OrElseNum(Number(record.nonBillableHours), 0),
    totalHours       |-> OrElseNum(Number(record.totalHours),
                                   Number(OrElseNum(record.hours, 0))) ]

MapUpstream(result, t) == [i \in 1..Len(result) |-> MapUpstreamRecord(result[i], t)]

\* ------------------------------------------------------ fixture generation
FixtureProjects ==
  <<"Website Redesign", "Mobile App Development", "E-commerce Platform",
    "CRM Implementation", "Data Migration">>
FixtureEmployees ==
  <<"John Doe", "Jane Smith", "Robert Johnson", "Emily Davis", "Michael Wilson">>
FixtureJobs ==
  <<"Design", "Development", "Testing", "Project Management", "Documentation">>

\* One record of the inner loop; d is the vector of the random draws made
\* for it (indexes already floored, hours already scaled).
SimulatedRecord(date, i, d, t) ==
  [ timesheet_id     |-> GeneratedId(t, i),
    workDate         |-> date,
    projectName      |-> FixtureProjects[d.projectIndex + 1],
    userName         |-> FixtureEmployees[d.employeeIndex + 1],
    jobName          |-> FixtureJobs[d.jobIndex + 1],
    billableHours    |-> d.billableHours,
    nonBillableHours |-> d.nonBillableHours,
    totalHours       |-> d.billableHours + d.nonBillableHours ]

\* draws[k] is the sequence of draw vectors of the k-th day of the interval;
\* its length is that day's recordsPerDay.
\* A Date is its instant, in hours; the days of the calendar are numbered.
HoursPerDay == 24

\* date.toISOString().split('T')[0]: the day of the instant in UTC
toISODate(date) == date \div HoursPerDay

\* new Date(year, month, day): midnight of that day in the server's time
\* zone, which is zone hours ahead of UTC
LocalMidnight(day, zone) == day * HoursPerDay - zone

\* The passes of `while (currentDate <= endDate)`, currentDate going from
\* startDate in steps of one day (a day of 24 hours: no clock change).
DaysGenerated(startDate, endDate) ==
  IF startDate > endDate THEN 0 ELSE (endDate - startDate) \div HoursPerDay + 1

RECURSIVE generateSimulatedTimesheetData(_, _, _, _)
generateSimulatedTimesheetData(startDate, endDate, draws, t) ==
  IF startDate > endDate THEN <<>>
  ELSE [i \in 1..Len(draws[1]) |->
          SimulatedRecord(toISODate(startDate), i - 1, draws[1][i], t)]
       \o generateSimulatedTimesheetData(startDate + HoursPerDay, endDate, Tail(draws), t)

\* ----------------------------------------------------- processTimesheetData
\* Variant of ToTimeEntry: the total is recomputed from the two parts.
ToTimeEntryRecomputed(record) ==
  [ id               |-> record.timesheet_id,
    date             |-> record.workDate,
    project          |-> record.projectName,
    employee         |-> record.userName,
    job              |-> record.jobName,
    billableHours    |-> record.billableHours,
    nonBillableHours |-> record.nonBillableHours,
    totalHours       |-> record.billableHours + record.nonBillableHours ]

ToTimeEntry(record) ==
  [ id               |-> record.timesheet_id,
    date             |-> record.workDate,
    project          |-> record.projectName,
    employee         |-> record.userName,
    job              |-> record.jobName,
    billableHours    |-> record.billableHours,
    nonBillableHours |-> record.nonBillableHours,
    totalHours       |-> record.totalHours ]

\* The Map built by data.forEach: a sequence of summaries in first-seen
\* order of the key, each accumulated in record order.
\* Variant of Aggregate: a record whose key was seen before replaces the
\* summary's hours instead of adding to them.
RECURSIVE AggregateLastWins(_, _, _)
AggregateLastWins(data, key, acc) ==
  IF data = <<>> THEN acc
  ELSE LET record == data[1]
           hit == {i \in 1..Len(acc) : acc[i].name = record[key]}
           summary == [ name             |-> record[key],
                        billableHours    |-> record.billableHours,
                        nonBillableHours |-> record.nonBillableHours,
                        totalHours       |-> record.totalHours ]
           next == IF hit = {} THEN Append(acc, summary)
                   ELSE [acc EXCEPT ![CHOOSE j \in hit : TRUE] = summary]
       IN AggregateLastWins(Tail(data), key, next)

RECURSIVE Aggregate(_, _, _)
Aggregate(data, key, acc) ==
  IF data = <<>> THEN acc
  ELSE LET record == data[1]
           hit == {i \in 1..Len(acc) : acc[i].name = record[key]}
           next == IF hit = {}
                   THEN Append(acc, [ name             |-> record[key],
                                      billableHours    |-> record.billableHours,
                                      nonBillableHours |-> record.nonBillableHours,
                                      totalHours       |-> record.totalHours ])
                   ELSE LET i == CHOOSE j \in hit : TRUE
                        IN [acc EXCEPT
                              ![i].billableHours = @ + record.billableHours,
                              ![i].nonBillableHours = @ + record.nonBillableHours,
                              ![i].totalHours = @ + record.totalHours]
       IN Aggregate(Tail(data), key, next)

\* Variant of processTimesheetData: the total of the stats is the sum of the
\* entries' totals.
processTimesheetDataSummedTotal(data) ==
  LET entries == [i \in 1..Len(data) |-> ToTimeEntry(data[i])]
      projects == Aggregate(data, "projectName", <<>>)
      employees == Aggregate(data, "userName", <<>>)
  IN [ timeEntries   |-> entries,
       projectHours  |-> projects,
       employeeHours |-> employees,
       stats |-> [ billableHours    |-> SumSeq(entries, "billableHours"),
                   nonBillableHours |-> SumSeq(entries, "nonBillableHours"),
                   totalHours       |-> SumSeq(entries, "totalHours"),
                   activeProjects   |-> Len(projects),
                   activeEmployees  |-> Len(employees) ] ]

processTimesheetData(data) ==
  LET entries == [i \in 1..Len(data) |-> ToTimeEntry(data[i])]
      projects == Aggregate(data, "projectName", <<>>)
      employees == Aggregate(data, "userName", <<>>)
      totalBillableHours == SumSeq(entries, "billableHours")
      totalNonBillableHours == SumSeq(entries, "nonBillableHours")
  IN [ timeEntries   |-> entries,
       projectHours  |-> projects,
       employeeHours |-> employees,
       stats |-> [ billableHours    |-> totalBillableHours,
                   nonBillableHours |-> totalNonBillableHours,
                   totalHours       |-> totalBillableHours + totalNonBillableHours,
                   activeProjects   |-> Len(projects),
                   activeEmployees  |-> Len(employees) ] ]

\* ================================================================== state
VARIABLES
  variant,          \* which source variant of the Zoho handlers is mounted
  now,              \* Date.now(), in token lifetimes
  zohoCredentials,  \* table zoho_credentials
  zohoAuth,         \* the module variable of the in-memory variant
  timeEntries,      \* table time_entries (a bag: rows are never looked up by id)
  projectHours,     \* table project_hours
  employeeHours,    \* table employee_hours
  reqs,             \* the request handlers in flight
  last,             \* the request answered most recently, with its response
  authVersion,      \* which source version of the account handlers is mounted
  users,            \* table users
  session,          \* the user id in the client's passport session, or Anon
  rawData,          \* an argument of processTimesheetData
  processedData,    \* what processTimesheetData returned for it
  calendar          \* the server's local date, time of day and time zone

vars == <<variant, now, zohoCredentials, zohoAuth, timeEntries, projectHours,
          employeeHours, reqs, last, authVersion, users, session, rawData,
          processedData, calendar>>
tables == <<timeEntries, projectHours, employeeHours>>
accounts == <<authVersion, users, session>>
aggregation == <<rawData, processedData>>

\* "session":  server/auth.ts:213-330 (= server/routes.ts:83-202)
\* "exchange": unnamed/part_001:681-839
\* "fixed":    server/zoho.ts:4-108
\* "memory":   server/routes.ts:419-494
Variants == {"session", "exchange", "fixed", "memory"}

\* ------------------------------------------------------------- responses
\* The message texts of the Zoho and sync handlers.
Msg ==
  [ NotAuthenticated   |-> "Not authenticated",
    AuthRequired       |-> "Authentication required",
    FieldsRequired     |-> "Client ID, Client Secret, and Organization are required",
    Connected          |-> "Successfully connected to Zoho People",
    ConnectedSimulated |-> "Connected with simulated token for demo purposes. In a production environment, please ensure your Zoho API credentials are correct.",
    Disconnected       |-> "Successfully disconnected from Zoho People",
    DateRange          |-> "Date range is required",
    NotConnected       |-> "Zoho is not connected",
    TokenExpired       |-> "Zoho access token expired. Please reconnect your Zoho account.",
    FetchFailed        |-> "Failed to fetch data from Zoho API. Please verify your credentials.",
    Synced             |-> "Timesheet data synchronized successfully",
    Database           |-> "database error" ]

NoStats == [timeEntries |-> 0, projectHours |-> 0, employeeHours |-> 0]
NoResp == [status |-> 0, success |-> "absent", message |-> "", connected |-> "absent",
           expiresAt |-> NoTime, stats |-> NoStats, id |-> NoRow, username |-> Null,
           usernames |-> {}]

\* res.status(code).json({success, message})
Json(code, ok, msg) == [NoResp EXCEPT !.status = code,
                                      !.success = IF ok THEN "true" ELSE "false",
                                      !.message = msg]

\* res.json({connected, expiresAt})
StatusJson(conn, exp) == [NoResp EXCEPT !.status = 200,
                                        !.connected = IF conn THEN "true" ELSE "false",
                                        !.expiresAt = exp]

\* ------------------------------------------------------- request records
NoBody == [clientId |-> Null, clientSecret |-> Null, organization |-> Null]
NoToken == [accessToken |-> Null, refreshToken |-> Null, expiresAt |-> NoTime]

Idle == [ op |-> "none", user |-> Anon, pc |-> "idle", overlap |-> FALSE,
          username |-> Null, password |-> Null, current |-> Null,
          body |-> NoBody, token |-> NoToken, degraded |-> FALSE,
          existing |-> NoRow, dateRange |-> Null, fetch |-> "none", result |-> <<>>,
          data |-> <<>>,
          found |-> <<>>, stamp |-> NoTime, replaced |-> FALSE,
          repeat |-> FALSE, before |-> <<>>, afterLoss |-> FALSE ]

Running(q) == q.pc # "idle"

\* The handlers that work on the rows of user u while request r is open.
Others(r, u) == {s \in Slots \ {r} : Running(reqs[s]) /\ reqs[s].user = u}

\* A new handler q for user u enters slot r; it and every handler of u already
\* in flight are marked as overlapping.
Enter(r, u, q) ==
  [s \in Slots |->
     IF s = r THEN [q EXCEPT !.overlap = Others(r, u) # {}]
     ELSE IF s \in Others(r, u) THEN [reqs[s] EXCEPT !.overlap = TRUE]
     ELSE reqs[s]]

Free(r) == ~Running(reqs[r])

\* What is kept of a handler once it has answered.  lost: it was a sync that
\* failed between its delete and its inserts; afterLoss: it ran its delete
\* right after such a sync of the same user; changed: the current and the
\* new password of a change-password that was answered with success.
Answered(q, response) ==
  [op |-> q.op, user |-> q.user, overlap |-> q.overlap, degraded |-> q.degraded,
   replaced |-> q.replaced, result |-> q.result, resp |-> response,
   lost |-> q.op = "sync" /\ q.pc = "entries" /\ response.status = 500,
   afterLoss |-> q.afterLoss,
   changed |-> IF q.op = "change-password" /\ response.status = 200
               THEN <<q.current, q.password>> ELSE <<>>]

NoLast == Answered(Idle, NoResp)

\* A handler answers in the step in which it arrives.
Answer(q, response) ==
  /\ last' = Answered(q, response)
  /\ UNCHANGED reqs

\* The handler in slot r answers and leaves.
Finish(r, response) ==
  /\ last' = Answered(reqs[r], response)
  /\ reqs' = [reqs EXCEPT ![r] = Idle]

\* The handler q arrives in slot r and goes on to its next step.
Proceed(r, u, q) ==
  /\ reqs' = Enter(r, u, q)
  /\ UNCHANGED last

\* ------------------------------------------------------ credential store
FreshId(used) == CHOOSE i \in 1..(Cardinality(used) + 1) : i \notin used

\* ids a handler in flight has read and will write to
HeldCredentialIds == {reqs[s].existing : s \in {t \in Slots : Running(reqs[t])}}

\* `const [credentials] = await db.select()...where(userId)`: the first row of
\* a query without ORDER BY, i.e. any row of the user; NoRow when there is none.
getZohoCredentials(userId) ==
  LET rows == {c \in zohoCredentials : c.userId = userId}
  IN IF rows = {} THEN {NoRow} ELSE {c.id : c \in rows}

CredentialRow(id) == CHOOSE c \in zohoCredentials : c.id = id

saveZohoCredentials(credentials) ==
  zohoCredentials \cup
    {[id |-> FreshId({c.id : c \in zohoCredentials} \cup HeldCredentialIds)] @@ credentials}

\* updates is a record of the columns to set
updateZohoCredentials(id, updates) ==
  {IF c.id = id
   THEN [f \in DOMAIN c |-> IF f \in DOMAIN updates THEN updates[f] ELSE c[f]]
   ELSE c : c \in zohoCredentials}

\* The expiry timestamp has passed.
Expired(expiresAt) == expiresAt # NoTime /\ now >= expiresAt

\* =========================================================== Zoho handlers
\* Request bodies of POST /api/zoho/connect
ClientIds == {"client-1"}
CompleteBodies == [clientId : ClientIds, clientSecret : {"secret"}, organization : {"acme"}]
IncompleteBodies ==
  {[clientId |-> Null, clientSecret |-> "secret", organization |-> "acme"],
   [clientId |-> "", clientSecret |-> "secret", organization |-> "acme"],
   [clientId |-> "client-1", clientSecret |-> "", organization |-> "acme"],
   [clientId |-> "client-1", clientSecret |-> "secret", organization |-> Null]}
ConnectBodies == CompleteBodies \cup IncompleteBodies

\* Variant of MissingField: only clientId is looked at.
MissingClientId(body) == Falsy(body.clientId)

\* !clientId || !clientSecret || !organization
MissingField(body) ==
  Falsy(body.clientId) \/ Falsy(body.clientSecret) \/ Falsy(body.organization)

\* req.isAuthenticated(); p is the session's user, Anon when there is none
IsAuthenticated(p) == p # Anon

SimulatedToken(t) ==
  [accessToken |-> "simulated_access_token", refreshToken |-> "simulated_refresh_token",
   expiresAt |-> t + TokenLifetime]

SelfClientToken(t) ==
  [accessToken |-> "self_client_token", refreshToken |-> "refresh_token",
   expiresAt |-> t + TokenLifetime]

\* What POST accounts.zoho.com/oauth/v2/token can come back with.
ExchangeOutcomes == {"token", "no_access_token", "error"}

ExchangedToken(outcome, t) ==
  [accessToken |-> "zoho_access_token",
   refreshToken |-> OrElse(IF outcome = "token" THEN "zoho_refresh_token" ELSE Null, Null),
   expiresAt |-> t + TokenLifetime]

NoAuth == [present |-> FALSE] @@ NoBody @@ NoToken

\* POST /api/zoho/connect up to its first await.
ConnectStart(r, p, body) ==
  /\ Free(r)
  /\ LET q == [Idle EXCEPT !.op = "connect", !.user = p, !.body = body]
     IN CASE variant = "session" ->
               /\ IF ~IsAuthenticated(p) THEN Answer(q, Json(401, FALSE, Msg.NotAuthenticated))
                  ELSE IF MissingField(body) THEN Answer(q, Json(400, FALSE, Msg.FieldsRequired))
                  ELSE \E id \in getZohoCredentials(p) :
                         Proceed(r, p, [q EXCEPT !.pc = "write", !.existing = id,
                                                 !.token = SimulatedToken(now)])
               /\ UNCHANGED zohoAuth
          [] variant = "exchange" ->
               /\ IF ~IsAuthenticated(p) THEN Answer(q, Json(401, FALSE, Msg.AuthRequired))
                  ELSE IF MissingField(body) THEN Answer(q, Json(400, FALSE, Msg.FieldsRequired))
                  ELSE Proceed(r, p, [q EXCEPT !.pc = "exchange"])
               /\ UNCHANGED zohoAuth
          [] variant = "fixed" ->
               /\ IF MissingField(body)
                  THEN Answer([q EXCEPT !.user = AdminId], Json(400, FALSE, Msg.FieldsRequired))
                  ELSE \E id \in getZohoCredentials(AdminId) :
                         Proceed(r, AdminId, [q EXCEPT !.user = AdminId, !.pc = "write",
                                                       !.existing = id,
                                                       !.token = SelfClientToken(now)])
               /\ UNCHANGED zohoAuth
          [] variant = "memory" ->
               IF MissingField(body)
               THEN /\ Answer(q, Json(400, FALSE, Msg.FieldsRequired))
                    /\ UNCHANGED zohoAuth
               ELSE /\ zohoAuth' = [present |-> TRUE] @@ body @@ SimulatedToken(now)
                    /\ Answer(q, Json(200, TRUE, Msg.Connected))
  /\ UNCHANGED <<variant, calendar, accounts, aggregation, now, zohoCredentials, tables>>

\* The token exchange of the "exchange" variant returns or throws; on either
\* path the handler then reads the user's credentials.
ConnectExchange(r) ==
  /\ reqs[r].op = "connect" /\ reqs[r].pc = "exchange"
  /\ \E outcome \in ExchangeOutcomes, id \in getZohoCredentials(reqs[r].user) :
       reqs' = [reqs EXCEPT ![r] =
                  IF outcome = "token"
                  THEN [@ EXCEPT !.pc = "write", !.existing = id,
                                 !.token = ExchangedToken(outcome, now)]
                  ELSE [@ EXCEPT !.pc = "write", !.existing = id, !.degraded = TRUE]]
  /\ UNCHANGED <<variant, calendar, accounts, aggregation, now, zohoCredentials,
                 zohoAuth, tables, last>>

\* The token columns connect writes on the failure path of the token exchange.
DegradedToken(t) == SimulatedToken(t)

\* updateZohoCredentials / saveZohoCredentials of connect, then the response.
ConnectWrite(r) ==
  /\ reqs[r].op = "connect" /\ reqs[r].pc = "write"
  /\ LET q == reqs[r]
         token == IF q.degraded THEN DegradedToken(now) ELSE q.token
         columns == q.body @@ token
     IN /\ zohoCredentials' =
             IF q.existing # NoRow THEN updateZohoCredentials(q.existing, columns)
             ELSE saveZohoCredentials([userId |-> q.user] @@ columns)
        /\ Finish(r, Json(200, TRUE,
                          IF q.degraded THEN Msg.ConnectedSimulated ELSE Msg.Connected))
  /\ UNCHANGED <<variant, calendar, accounts, aggregation, now, zohoAuth, tables>>

\* The 401 of a handler of the variants that check the session.
Unauthenticated == Json(401, FALSE, IF variant = "exchange" THEN Msg.AuthRequired
                                    ELSE Msg.NotAuthenticated)

\* The user whose credentials a handler works on.
CredentialUser(p) == IF variant = "fixed" THEN AdminId ELSE p

\* The session check of a Zoho handler fails.
Rejected(p) == variant \in {"session", "exchange"} /\ ~IsAuthenticated(p)

\* POST /api/zoho/disconnect up to its first await.
DisconnectStart(r, p) ==
  /\ Free(r)
  /\ LET u == CredentialUser(p)
         q == [Idle EXCEPT !.op = "disconnect", !.user = u]
     IN IF variant = "memory"
        THEN /\ zohoAuth' = NoAuth
             /\ Answer(q, Json(200, TRUE, Msg.Disconnected))
        ELSE /\ IF Rejected(p) THEN Answer(q, Unauthenticated)
                ELSE \E id \in getZohoCredentials(u) :
                       Proceed(r, u, [q EXCEPT !.pc = "write", !.existing = id])
             /\ UNCHANGED zohoAuth
  /\ UNCHANGED <<variant, calendar, accounts, aggregation, now, zohoCredentials, tables>>

\* The columns disconnect sets.
DisconnectUpdates == NoToken

DisconnectWrite(r) ==
  /\ reqs[r].op = "disconnect" /\ reqs[r].pc = "write"
  /\ zohoCredentials' =
       IF reqs[r].existing # NoRow
       THEN updateZohoCredentials(reqs[r].existing, DisconnectUpdates)
       ELSE zohoCredentials
  /\ Finish(r, Json(200, TRUE, Msg.Disconnected))
  /\ UNCHANGED <<variant, calendar, accounts, aggregation, now, zohoAuth, tables>>

\* connected: !!credentials?.accessToken
Connected(id) == id # NoRow /\ ~Falsy(CredentialRow(id).accessToken)

\* The body GET /api/zoho/status answers with when its query returns row id.
StatusOf(id) ==
  StatusJson(Connected(id), IF id = NoRow THEN NoTime ELSE CredentialRow(id).expiresAt)

\* connected: !!zohoAuth
MemoryStatus == StatusJson(zohoAuth.present, zohoAuth.expiresAt)

\* The responses GET /api/zoho/status can give to a session of p.
StatusResponses(p) ==
  IF variant = "memory" THEN {MemoryStatus}
  ELSE IF Rejected(p) THEN {Unauthenticated}
  ELSE {StatusOf(id) : id \in getZohoCredentials(CredentialUser(p))}

\* GET /api/zoho/status: one query, no write.
Status(r, p) ==
  /\ Free(r)
  /\ \E response \in StatusResponses(p) :
       Answer([Idle EXCEPT !.op = "status", !.user = CredentialUser(p)], response)
  /\ UNCHANGED <<variant, calendar, accounts, aggregation, now, zohoCredentials, zohoAuth, tables>>

\* Time passes.
Tick ==
  /\ now < MaxTime
  /\ now' = now + 1
  /\ UNCHANGED <<variant, calendar, accounts, aggregation, zohoCredentials, zohoAuth,
                 tables, reqs, last>>

\* ==================================================================== sync
\* The calendar at the time of the requests: the number of the local day,
\* its day of the month, the length of the month before, the local hour of
\* the day and the hours the server's time zone is ahead of UTC.
Calendar == [today |-> 31, dayOfMonth |-> 1, lastMonthDays |-> 30, hour |-> 0, zone |-> 0]

\* new Date()
Today == LocalMidnight(calendar.today, calendar.zone) + calendar.hour

calculateDateRangeFromString(dateRange) ==
  LET today == calendar.today
      firstOfMonth == today - (calendar.dayOfMonth - 1)
      midnight(day) == LocalMidnight(day, calendar.zone)
  IN CASE dateRange = "Last 7 days" -> [startDate |-> midnight(today - 6), endDate |-> Today]
       [] dateRange = "This month" -> [startDate |-> midnight(firstOfMonth), endDate |-> Today]
       [] dateRange = "Last month" ->
            [startDate |-> midnight(firstOfMonth - calendar.lastMonthDays),
             endDate |-> midnight(firstOfMonth - 1)]
       [] dateRange = "Custom range" -> [startDate |-> midnight(firstOfMonth), endDate |-> Today]
       [] OTHER -> [startDate |-> midnight(today - 6), endDate |-> Today]

\* The dateRange query parameters the sync requests of the model carry.
SyncDateRanges == {Null, "This month"}

\* What the Zoho People API can deliver as one record of response.result.
UpstreamRecords ==
  { [timesheetId |-> "Z1", workDate |-> 31, projectName |-> "A", userName |-> "X",
     jobName |-> "Build", taskName |-> Null,
     billableHours |-> 3, nonBillableHours |-> 1, totalHours |-> 4, hours |-> NaN],
    [timesheetId |-> "Z2", workDate |-> 31, projectName |-> "A", userName |-> "Y",
     jobName |-> Null, taskName |-> "Review",
     billableHours |-> 2, nonBillableHours |-> 0, totalHours |-> 2, hours |-> NaN],
    [timesheetId |-> Null, workDate |-> 31, projectName |-> Null, userName |-> Null,
     jobName |-> Null, taskName |-> Null,
     billableHours |-> 1, nonBillableHours |-> NaN, totalHours |-> NaN, hours |-> 5] }

SeqsUpTo(S, n) == UNION {[1..k -> S] : k \in 0..n}

\* The outcomes of axios.get: a response whose result is a list of records, a
\* response without result, an HTTP error status, no response at all.
FetchFailures == {"http_401", "http_403", "http_500", "no_response"}
\* Results of up to MaxRecords records, each a complete record or a record
\* with no field but its hours.
FetchResults == SeqsUpTo({rec \in UpstreamRecords : rec.taskName = Null}, MaxRecords)

\* The random draws of one fixture record, and the records per day.
RecordDraws ==
  {[projectIndex |-> 0, employeeIndex |-> 1, jobIndex |-> 2,
    billableHours |-> 5, nonBillableHours |-> 1]}
PerDay == {MinPerDay, MinPerDay + 2}
DayDraws == UNION {[1..n -> RecordDraws] : n \in PerDay}
FixtureDraws(startDate, endDate) == [1..DaysGenerated(startDate, endDate) -> DayDraws]

\* Variant of FetchError: one answer for every failure.
FetchErrorUniform(failure) == Json(401, FALSE, Msg.TokenExpired)

\* apiError.response && apiError.response.status === 401
FetchError(failure) ==
  IF failure = "http_401" THEN Json(401, FALSE, Msg.TokenExpired)
  ELSE Json(500, FALSE, Msg.FetchFailed)

\* --------------------------------------------------------- timesheet store
EntryRow(userId, entry) ==
  [ userId           |-> userId,
    zohoTimesheetId  |-> entry.id,
    date             |-> entry.date,
    project          |-> entry.project,
    employee         |-> entry.employee,
    job              |-> OrElse(entry.job, Null),
    billableHours    |-> entry.billableHours,
    nonBillableHours |-> entry.nonBillableHours,
    totalHours       |-> entry.totalHours ]

RECURSIVE SeqToBag(_)
SeqToBag(s) == IF s = <<>> THEN EmptyBag ELSE SetToBag({s[1]}) (+) SeqToBag(Tail(s))

\* Variant of DeleteEntries: nothing is deleted.
DeleteEntriesNone(userId) == timeEntries

\* db.delete(table).where(eq(table.userId, userId)) on the bag of entries
DeleteEntries(userId) ==
  LET keep == {e \in DOMAIN timeEntries : e.userId # userId}
  IN [e \in keep |-> timeEntries[e]]

\* Variant of DeleteSummaries: the delete has no where clause.
DeleteSummariesOfAll(table, userId) == {}

\* ... and on a summary table
DeleteSummaries(table, userId) == {row \in table : row.userId # userId}

\* Promise.all(timeEntries.map(saveTimeEntry))
InsertEntries(userId, entries) ==
  timeEntries (+) SeqToBag([i \in 1..Len(entries) |-> EntryRow(userId, entries[i])])

\* The select of saveProjectHours / saveEmployeeHours: the first row with
\* this user and name, NoRow when there is none.
ExistingSummary(table, userId, name) ==
  LET rows == {row \in table : row.userId = userId /\ row.name = name}
  IN IF rows = {} THEN {NoRow} ELSE {row.id : row \in rows}

\* The selects of one Promise.all over the summaries.
ExistingSummaries(table, userId, summaries) ==
  {f \in [1..Len(summaries) -> {row.id : row \in table} \cup {NoRow}] :
     \A i \in 1..Len(summaries) : f[i] \in ExistingSummary(table, userId, summaries[i].name)}

\* ids of summary rows a handler in flight has selected at step pc
HeldSummaryIds(pc) ==
  UNION {{reqs[s].found[i] : i \in 1..Len(reqs[s].found)} :
           s \in {t \in Slots : reqs[t].pc = pc}}

SummaryRow(userId, summary, stamp) ==
  [ userId           |-> userId,
    name             |-> summary.name,
    billableHours    |-> summary.billableHours,
    nonBillableHours |-> summary.nonBillableHours,
    totalHours       |-> summary.totalHours,
    lastSyncDate     |-> stamp ]

\* The update or insert of saveProjectHours / saveEmployeeHours for the
\* summaries from position i on; found[i] is what the select returned.
RECURSIVE SaveSummaries(_, _, _, _, _, _, _)
SaveSummaries(table, held, userId, summaries, found, stamp, i) ==
  IF i > Len(summaries) THEN table
  ELSE LET row == SummaryRow(userId, summaries[i], stamp)
           next == IF found[i] # NoRow
                   THEN {IF old.id = found[i] THEN [id |-> old.id] @@ row ELSE old :
                           old \in table}
                   ELSE table \cup
                          {[id |-> FreshId({old.id : old \in table} \cup held)] @@ row}
       IN SaveSummaries(next, held, userId, summaries, found, stamp, i + 1)

\* ----------------------------------------------------------- sync handler
\* POST /api/timesheet/sync up to the query for the credentials and the
\* checks on its result.
SyncStart(r, p, dateRange) ==
  /\ Free(r)
  /\ variant # "memory"
  /\ LET q == [Idle EXCEPT !.op = "sync", !.user = p, !.dateRange = dateRange]
     IN IF ~IsAuthenticated(p) THEN Answer(q, Json(401, FALSE, Msg.NotAuthenticated))
        ELSE IF Falsy(dateRange) THEN Answer(q, Json(400, FALSE, Msg.DateRange))
        ELSE \E id \in getZohoCredentials(p) :
               IF ~Connected(id) THEN Answer(q, Json(400, FALSE, Msg.NotConnected))
               ELSE Proceed(r, p, [q EXCEPT !.pc = "fetch"])
  /\ UNCHANGED <<variant, calendar, accounts, aggregation, now, zohoCredentials, zohoAuth, tables>>

\* The records sync goes on with when the call returned `result`.
SyncData(result, dateRange, draws) ==
  LET zohoData == MapUpstream(result, now)
      range == calculateDateRangeFromString(dateRange)
  IN IF Len(zohoData) = 0
     THEN generateSimulatedTimesheetData(range.startDate, range.endDate, draws, now)
     ELSE zohoData

\* axios.get settles: it resolves with a result or rejects.
SyncFetch(r, Results) ==
  /\ reqs[r].op = "sync" /\ reqs[r].pc = "fetch"
  /\ \/ \E failure \in FetchFailures :
          reqs' = [reqs EXCEPT ![r] = [@ EXCEPT !.pc = "fetched", !.fetch = failure]]
     \/ \E result \in Results :
          reqs' = [reqs EXCEPT ![r] = [@ EXCEPT !.pc = "fetched", !.fetch = "ok",
                                                !.result = result]]
  /\ UNCHANGED <<variant, calendar, accounts, aggregation, now, zohoCredentials,
                 zohoAuth, tables, last>>

\* Variant of FetchFailed: only a 401 enters the catch block.
FetchFailedOnly401(q) == q.fetch = "http_401"

\* The call rejected: the catch block of the fetch is entered.
FetchFailed(q) == q.fetch \in FetchFailures

\* The handler goes on after the upstream call: it answers from the catch
\* block, or maps (or generates) the records and turns to the store.
SyncFetched(r) ==
  /\ reqs[r].op = "sync" /\ reqs[r].pc = "fetched"
  /\ IF FetchFailed(reqs[r])
     THEN Finish(r, FetchError(reqs[r].fetch))
     ELSE /\ LET range == calculateDateRangeFromString(reqs[r].dateRange)
             IN \E draws \in FixtureDraws(range.startDate, range.endDate) :
                  reqs' = [reqs EXCEPT ![r] =
                             [@ EXCEPT !.pc = "clear",
                                       !.data = SyncData(reqs[r].result, reqs[r].dateRange, draws)]]
          /\ UNCHANGED last
  /\ UNCHANGED <<variant, calendar, accounts, aggregation, now, zohoCredentials, zohoAuth, tables>>

\* The rows of user u, table by table.
UserEntries(u) ==
  LET own == {e \in DOMAIN timeEntries : e.userId = u} IN [e \in own |-> timeEntries[e]]
UserProjects(u) == {row \in projectHours : row.userId = u}
UserEmployees(u) == {row \in employeeHours : row.userId = u}
UserRows(u) == <<UserEntries(u), UserProjects(u), UserEmployees(u)>>

\* A summary row without its key and its timestamp.
Hours(row) == [name |-> row.name, billableHours |-> row.billableHours,
               nonBillableHours |-> row.nonBillableHours, totalHours |-> row.totalHours]

\* The request answered last was a successful sync of user u that had
\* fetched exactly these records (the model has one date range that passes
\* validation, so the two syncs also share their date range).
FollowsSyncOf(u, result) ==
  /\ last.op = "sync" /\ last.user = u /\ last.resp.success = "true"
  /\ last.result = result

\* Variant of SyncClear: the time entries are not deleted.
SyncClearKeepsEntries(r) ==
  /\ reqs[r].op = "sync" /\ reqs[r].pc = "clear"
  /\ projectHours' = DeleteSummaries(projectHours, reqs[r].user)
  /\ employeeHours' = DeleteSummaries(employeeHours, reqs[r].user)
  /\ LET same == FollowsSyncOf(reqs[r].user, reqs[r].result)
     IN reqs' = [reqs EXCEPT ![r] =
                  [@ EXCEPT !.pc = "entries", !.repeat = same,
                            !.replaced = UserRows(reqs[r].user) # <<EmptyBag, {}, {}>>,
                            !.before = IF same THEN UserRows(reqs[r].user) ELSE <<>>,
                            !.afterLoss = last.lost /\ last.user = reqs[r].user]]
  /\ UNCHANGED <<variant, calendar, accounts, aggregation, now, zohoCredentials, zohoAuth,
                 timeEntries, last>>

\* storage.clearUserTimesheetData(req.user.id)
\* The record also notes whether rows were found, whether this sync follows
\* a sync of the same records, and if so the rows found, and whether it
\* follows a sync that failed after its delete (history only: nothing reads
\* it).
SyncClear(r) ==
  /\ reqs[r].op = "sync" /\ reqs[r].pc = "clear"
  /\ timeEntries' = DeleteEntries(reqs[r].user)
  /\ projectHours' = DeleteSummaries(projectHours, reqs[r].user)
  /\ employeeHours' = DeleteSummaries(employeeHours, reqs[r].user)
  /\ LET same == FollowsSyncOf(reqs[r].user, reqs[r].result)
     IN reqs' = [reqs EXCEPT ![r] =
                  [@ EXCEPT !.pc = "entries", !.repeat = same,
                            !.replaced = UserRows(reqs[r].user) # <<EmptyBag, {}, {}>>,
                            !.before = IF same THEN UserRows(reqs[r].user) ELSE <<>>,
                            !.afterLoss = last.lost /\ last.user = reqs[r].user]]
  /\ UNCHANGED <<variant, calendar, accounts, aggregation, now, zohoCredentials, zohoAuth, last>>

\* The inserts of the time entries.
SyncEntries(r) ==
  /\ reqs[r].op = "sync" /\ reqs[r].pc = "entries"
  /\ timeEntries' = InsertEntries(reqs[r].user, processTimesheetData(reqs[r].data).timeEntries)
  /\ reqs' = [reqs EXCEPT ![r] = [@ EXCEPT !.pc = "selectProjects"]]
  /\ UNCHANGED <<variant, calendar, accounts, aggregation, now, zohoCredentials, zohoAuth,
                 projectHours, employeeHours, last>>

\* The selects of saveProjectHours, one per project summary.
SyncSelectProjects(r) ==
  /\ reqs[r].op = "sync" /\ reqs[r].pc = "selectProjects"
  /\ \E found \in ExistingSummaries(projectHours, reqs[r].user,
                                    processTimesheetData(reqs[r].data).projectHours) :
       reqs' = [reqs EXCEPT ![r] = [@ EXCEPT !.pc = "writeProjects", !.found = found,
                                             !.stamp = now]]
  /\ UNCHANGED <<variant, calendar, accounts, aggregation, now, zohoCredentials,
                 zohoAuth, tables, last>>

\* The updates and inserts of saveProjectHours.
SyncWriteProjects(r) ==
  /\ reqs[r].op = "sync" /\ reqs[r].pc = "writeProjects"
  /\ projectHours' = SaveSummaries(projectHours, HeldSummaryIds("writeProjects"),
                                   reqs[r].user,
                                   processTimesheetData(reqs[r].data).projectHours,
                                   reqs[r].found, reqs[r].stamp, 1)
  /\ reqs' = [reqs EXCEPT ![r] = [@ EXCEPT !.pc = "selectEmployees", !.found = <<>>,
                                           !.stamp = NoTime]]
  /\ UNCHANGED <<variant, calendar, accounts, aggregation, now, zohoCredentials, zohoAuth,
                 timeEntries, employeeHours, last>>

\* The selects of saveEmployeeHours, one per employee summary.
SyncSelectEmployees(r) ==
  /\ reqs[r].op = "sync" /\ reqs[r].pc = "selectEmployees"
  /\ \E found \in ExistingSummaries(employeeHours, reqs[r].user,
                                    processTimesheetData(reqs[r].data).employeeHours) :
       reqs' = [reqs EXCEPT ![r] = [@ EXCEPT !.pc = "writeEmployees", !.found = found,
                                             !.stamp = now]]
  /\ UNCHANGED <<variant, calendar, accounts, aggregation, now, zohoCredentials,
                 zohoAuth, tables, last>>

\* Variant of SyncStats: the number of fetched records, three times.
SyncStatsOfRecords(data) ==
  [ timeEntries |-> Len(data), projectHours |-> Len(data), employeeHours |-> Len(data) ]

\* stats of the success response: the lengths of the three saved lists
SyncStats(data) ==
  [ timeEntries   |-> Len(processTimesheetData(data).timeEntries),
    projectHours  |-> Len(processTimesheetData(data).projectHours),
    employeeHours |-> Len(processTimesheetData(data).employeeHours) ]

\* The updates and inserts of saveEmployeeHours, then the response.
SyncWriteEmployees(r) ==
  /\ reqs[r].op = "sync" /\ reqs[r].pc = "writeEmployees"
  /\ employeeHours' = SaveSummaries(employeeHours, HeldSummaryIds("writeEmployees"),
                                    reqs[r].user,
                                    processTimesheetData(reqs[r].data).employeeHours,
                                    reqs[r].found, reqs[r].stamp, 1)
  /\ Finish(r, [Json(200, TRUE, Msg.Synced) EXCEPT !.stats = SyncStats(reqs[r].data)])
  /\ UNCHANGED <<variant, calendar, accounts, aggregation, now, zohoCredentials,
                 zohoAuth, timeEntries, projectHours>>

\* Variant of SyncStorageFails: the rejection is answered as a success.
SyncStorageFailsQuietly(r) ==
  /\ reqs[r].op = "sync"
  /\ reqs[r].pc \in {"clear", "entries", "selectProjects", "writeProjects",
                     "selectEmployees", "writeEmployees"}
  /\ Finish(r, Json(200, TRUE, Msg.Synced))
  /\ UNCHANGED <<variant, calendar, accounts, aggregation, now, zohoCredentials, zohoAuth, tables>>

\* A storage call of sync rejects: the outer catch answers 500.
SyncStorageFails(r) ==
  /\ reqs[r].op = "sync"
  /\ reqs[r].pc \in {"clear", "entries", "selectProjects", "writeProjects",
                     "selectEmployees", "writeEmployees"}
  /\ Finish(r, Json(500, FALSE, Msg.Database))
  /\ UNCHANGED <<variant, calendar, accounts, aggregation, now, zohoCredentials, zohoAuth, tables>>

\* The steps of the sync handler, for sessions of the users in P, handlers in
\* the slots S and upstream results in Results.
SyncSteps(P, S, Results) ==
  \/ \E r \in S, p \in P, dateRange \in SyncDateRanges : SyncStart(r, p, dateRange)
  \/ \E r \in S : SyncFetch(r, Results)
  \/ \E r \in S : SyncFetched(r)
  \/ \E r \in S : SyncClear(r)
  \/ \E r \in S : SyncEntries(r)
  \/ \E r \in S : SyncSelectProjects(r)
  \/ \E r \in S : SyncWriteProjects(r)
  \/ \E r \in S : SyncSelectEmployees(r)
  \/ \E r \in S : SyncWriteEmployees(r)
  \/ \E r \in S : SyncStorageFails(r)

\* ======================================================== account handlers
\* "plain": server/auth.ts:32-210 (login, logout, user, change-password)
\* "admin": unnamed/part_000:33-308 (= unnamed/part_001:404-680; adds the
\*          admin-only /api/users routes)
\* "open":  unnamed/part_001:33-250 (login, logout, user and /api/register)
AuthVersions == {"plain", "admin", "open"}

AdminUsername == "admin"
DefaultPassword == "password123"
Usernames == {AdminUsername, "bob"}
Passwords == {DefaultPassword, "secret2"}
Salts == {"salt-a", "salt-b"}

\* The message texts of the account handlers.
AccountMsg ==
  [ InvalidLogin       |-> "Invalid username or password",
    MissingCredentials |-> "Missing credentials",
    PasswordsRequired  |-> "Current password and new password are required",
    UserNotFound       |-> "User not found",
    PasswordIncorrect  |-> "Current password is incorrect",
    PasswordChanged    |-> "Password changed successfully",
    AdminRequired      |-> "Admin privileges required",
    UsernameRequired   |-> "Username and password are required",
    UsernameExists     |-> "Username already exists" ]

\* scryptAsync(password, salt, 64): taken to be injective in both arguments
Scrypt(password, salt) == <<password, salt>>

\* `${buf.toString("hex")}.${salt}`, kept as its two parts
hashPassword(password, salt) == [hashed |-> Scrypt(password, salt), salt |-> salt]

\* stored.split("."), scrypt of the supplied password with the stored salt,
\* timingSafeEqual
comparePasswords(supplied, stored) == Scrypt(supplied, stored.salt) = stored.hashed

\* The row setupAuth creates at startup.
AdminRow(salt) ==
  [id |-> AdminId, username |-> AdminUsername,
   password |-> hashPassword(DefaultPassword, salt)]

\* storage.getUser / storage.getUserByUsername: the row's id, or NoRow
getUser(id) == IF \E u \in users : u.id = id THEN id ELSE NoRow
getUserByUsername(username) ==
  IF \E u \in users : u.username = username
  THEN (CHOOSE u \in users : u.username = username).id
  ELSE NoRow
UserRow(id) == CHOOSE u \in users : u.id = id

\* storage.createUser; the caller has checked that the username is free
createUser(username, password) ==
  users \cup {[id |-> FreshId({u.id : u \in users}), username |-> username,
               password |-> password]}

\* storage.updateUser(id, {password})
updateUser(id, password) ==
  {IF u.id = id THEN [u EXCEPT !.password = password] ELSE u : u \in users}

\* passport.session(): req.user is the row deserializeUser finds for the id
\* in the session, and the request is authenticated when there is one.
ReqUser == IF session = Anon THEN Anon ELSE IF getUser(session) = NoRow THEN Anon ELSE session

\* res.json of a user: {id, username, ...}, with success where the route adds it
UserJson(code, ok, id) ==
  [NoResp EXCEPT !.status = code, !.success = ok, !.id = id,
                 !.username = UserRow(id).username]

\* Variant of LoginStart: the password is not compared.
LoginStartUnverified(r, username, password) ==
  /\ Free(r)
  /\ LET q == [Idle EXCEPT !.op = "login", !.user = ReqUser, !.username = username,
                           !.password = password]
         row == getUserByUsername(username)
     IN IF Falsy(username) \/ Falsy(password)
        THEN Answer(q, Json(401, FALSE, AccountMsg.MissingCredentials))
        ELSE IF row = NoRow
        THEN Answer(q, Json(401, FALSE, AccountMsg.InvalidLogin))
        ELSE Proceed(r, ReqUser, [q EXCEPT !.pc = "login", !.existing = row])
  /\ UNCHANGED <<variant, calendar, accounts, aggregation, now, zohoCredentials, zohoAuth, tables>>

\* POST /api/login up to the call of req.login: the verify callback of the
\* LocalStrategy (passport-local answers "Missing credentials" itself when a
\* field is empty).
LoginStart(r, username, password) ==
  /\ Free(r)
  /\ LET q == [Idle EXCEPT !.op = "login", !.user = ReqUser, !.username = username,
                           !.password = password]
         row == getUserByUsername(username)
     IN IF Falsy(username) \/ Falsy(password)
        THEN Answer(q, Json(401, FALSE, AccountMsg.MissingCredentials))
        ELSE IF row = NoRow \/ ~comparePasswords(password, UserRow(row).password)
        THEN Answer(q, Json(401, FALSE, AccountMsg.InvalidLogin))
        ELSE Proceed(r, ReqUser, [q EXCEPT !.pc = "login", !.existing = row])
  /\ UNCHANGED <<variant, calendar, accounts, aggregation, now, zohoCredentials, zohoAuth, tables>>

\* req.login(user) and the response
LoginWrite(r) ==
  /\ reqs[r].op = "login" /\ reqs[r].pc = "login"
  /\ session' = reqs[r].existing
  /\ Finish(r, UserJson(200, "true", reqs[r].existing))
  /\ UNCHANGED <<variant, calendar, authVersion, users, aggregation, now, zohoCredentials,
                 zohoAuth, tables>>

\* POST /api/logout
Logout(r) ==
  /\ Free(r)
  /\ session' = Anon
  /\ Answer([Idle EXCEPT !.op = "logout", !.user = ReqUser], Json(200, TRUE, ""))
  /\ UNCHANGED <<variant, calendar, authVersion, users, aggregation, now, zohoCredentials,
                 zohoAuth, tables>>

\* GET /api/user
GetUser(r) ==
  /\ Free(r)
  /\ LET q == [Idle EXCEPT !.op = "user", !.user = ReqUser]
     IN IF ~IsAuthenticated(ReqUser) THEN Answer(q, Json(401, FALSE, Msg.NotAuthenticated))
        ELSE Answer(q, UserJson(200, "absent", ReqUser))
  /\ UNCHANGED <<variant, calendar, accounts, aggregation, now, zohoCredentials, zohoAuth, tables>>

\* The 401 of change-password: the handler's own check in "plain", the
\* isAuthenticated middleware in "admin".
ChangeUnauthenticated ==
  Json(401, FALSE, IF authVersion = "admin" THEN Msg.AuthRequired ELSE Msg.NotAuthenticated)

\* Variant of ChangePasswordStart: the current password is not compared.
ChangePasswordStartUnchecked(r, currentPassword, newPassword) ==
  /\ Free(r)
  /\ authVersion \in {"plain", "admin"}
  /\ LET q == [Idle EXCEPT !.op = "change-password", !.user = ReqUser,
                           !.current = currentPassword, !.password = newPassword]
         row == getUser(ReqUser)
     IN IF ~IsAuthenticated(ReqUser) THEN Answer(q, ChangeUnauthenticated)
        ELSE IF Falsy(currentPassword) \/ Falsy(newPassword)
        THEN Answer(q, Json(400, FALSE, AccountMsg.PasswordsRequired))
        ELSE IF row = NoRow THEN Answer(q, Json(404, FALSE, AccountMsg.UserNotFound))
        ELSE Proceed(r, ReqUser, [q EXCEPT !.pc = "password", !.existing = row])
  /\ UNCHANGED <<variant, calendar, accounts, aggregation, now, zohoCredentials, zohoAuth, tables>>

\* POST /api/change-password up to the hashing of the new password
ChangePasswordStart(r, currentPassword, newPassword) ==
  /\ Free(r)
  /\ authVersion \in {"plain", "admin"}
  /\ LET q == [Idle EXCEPT !.op = "change-password", !.user = ReqUser,
                           !.current = currentPassword, !.password = newPassword]
         row == getUser(ReqUser)
     IN IF ~IsAuthenticated(ReqUser) THEN Answer(q, ChangeUnauthenticated)
        ELSE IF Falsy(currentPassword) \/ Falsy(newPassword)
        THEN Answer(q, Json(400, FALSE, AccountMsg.PasswordsRequired))
        ELSE IF row = NoRow THEN Answer(q, Json(404, FALSE, AccountMsg.UserNotFound))
        ELSE IF ~comparePasswords(currentPassword, UserRow(row).password)
        THEN Answer(q, Json(400, FALSE, AccountMsg.PasswordIncorrect))
        ELSE Proceed(r, ReqUser, [q EXCEPT !.pc = "password", !.existing = row])
  /\ UNCHANGED <<variant, calendar, accounts, aggregation, now, zohoCredentials, zohoAuth, tables>>

\* Variant of ChangePasswordWrite: the current password is hashed and stored.
ChangePasswordWriteKeepsOld(r) ==
  /\ reqs[r].op = "change-password" /\ reqs[r].pc = "password"
  /\ \E salt \in Salts :
       users' = updateUser(reqs[r].existing, hashPassword(reqs[r].current, salt))
  /\ Finish(r, Json(200, TRUE, AccountMsg.PasswordChanged))
  /\ UNCHANGED <<variant, calendar, authVersion, session, aggregation, now, zohoCredentials,
                 zohoAuth, tables>>

\* hashPassword(newPassword), storage.updateUser and the response
ChangePasswordWrite(r) ==
  /\ reqs[r].op = "change-password" /\ reqs[r].pc = "password"
  /\ \E salt \in Salts :
       users' = updateUser(reqs[r].existing, hashPassword(reqs[r].password, salt))
  /\ Finish(r, Json(200, TRUE, AccountMsg.PasswordChanged))
  /\ UNCHANGED <<variant, calendar, authVersion, session, aggregation, now, zohoCredentials,
                 zohoAuth, tables>>

\* req.isAuthenticated() && req.user?.username === "admin"
isAdmin == IsAuthenticated(ReqUser) /\ UserRow(ReqUser).username = AdminUsername

\* POST /api/users up to the hashing of the password
CreateUserStart(r, username, password) ==
  /\ Free(r)
  /\ authVersion = "admin"
  /\ LET q == [Idle EXCEPT !.op = "create-user", !.user = ReqUser,
                           !.username = username, !.password = password]
     IN IF ~isAdmin THEN Answer(q, Json(403, FALSE, AccountMsg.AdminRequired))
        ELSE IF Falsy(username) \/ Falsy(password)
        THEN Answer(q, Json(400, FALSE, AccountMsg.UsernameRequired))
        ELSE IF getUserByUsername(username) # NoRow
        THEN Answer(q, Json(409, FALSE, AccountMsg.UsernameExists))
        ELSE Proceed(r, ReqUser, [q EXCEPT !.pc = "create"])
  /\ UNCHANGED <<variant, calendar, accounts, aggregation, now, zohoCredentials, zohoAuth, tables>>

\* storage.createUser and the response; the unique constraint on
\* users.username rejects the insert when the name has been taken meanwhile.
CreateUserWrite(r) ==
  /\ reqs[r].op = "create-user" /\ reqs[r].pc = "create"
  /\ IF getUserByUsername(reqs[r].username) # NoRow
     THEN /\ Finish(r, Json(500, FALSE, Msg.Database))
          /\ UNCHANGED users
     ELSE \E salt \in Salts :
            /\ users' = createUser(reqs[r].username,
                                   hashPassword(reqs[r].password, salt))
            /\ Finish(r, [Json(201, TRUE, "") EXCEPT
                            !.id = FreshId({u.id : u \in users}),
                            !.username = reqs[r].username])
  /\ UNCHANGED <<variant, calendar, authVersion, session, aggregation, now, zohoCredentials,
                 zohoAuth, tables>>

\* GET /api/users
ListUsers(r) ==
  /\ Free(r)
  /\ authVersion = "admin"
  /\ LET q == [Idle EXCEPT !.op = "list-users", !.user = ReqUser]
     IN IF ~isAdmin THEN Answer(q, Json(403, FALSE, AccountMsg.AdminRequired))
        ELSE Answer(q, [NoResp EXCEPT !.status = 200,
                                      !.usernames = {u.username : u \in users}])
  /\ UNCHANGED <<variant, calendar, accounts, aggregation, now, zohoCredentials, zohoAuth, tables>>

\* POST /api/register up to the hashing of the password: no session check
RegisterStart(r, username, password) ==
  /\ Free(r)
  /\ authVersion = "open"
  /\ LET q == [Idle EXCEPT !.op = "register", !.user = ReqUser,
                           !.username = username, !.password = password]
     IN IF Falsy(username) \/ Falsy(password)
        THEN Answer(q, Json(400, FALSE, AccountMsg.UsernameRequired))
        ELSE IF getUserByUsername(username) # NoRow
        THEN Answer(q, Json(400, FALSE, AccountMsg.UsernameExists))
        ELSE Proceed(r, ReqUser, [q EXCEPT !.pc = "register"])
  /\ UNCHANGED <<variant, calendar, accounts, aggregation, now, zohoCredentials, zohoAuth, tables>>

\* storage.createUser, req.login(user) and the response
RegisterWrite(r) ==
  /\ reqs[r].op = "register" /\ reqs[r].pc = "register"
  /\ IF getUserByUsername(reqs[r].username) # NoRow
     THEN /\ Finish(r, Json(500, FALSE, Msg.Database))
          /\ UNCHANGED <<users, session>>
     ELSE \E salt \in Salts :
            /\ users' = createUser(reqs[r].username,
                                   hashPassword(reqs[r].password, salt))
            /\ session' = FreshId({u.id : u \in users})
            /\ Finish(r, [Json(201, TRUE, "") EXCEPT
                            !.id = FreshId({u.id : u \in users}),
                            !.username = reqs[r].username])
  /\ UNCHANGED <<variant, calendar, authVersion, aggregation, now, zohoCredentials,
                 zohoAuth, tables>>

\* Request bodies: a field can be empty
LoginNames == Usernames \cup {""}
LoginPasswords == Passwords \cup {""}

\* The steps of the handlers every version has: login, logout, current user.
LoginSteps(S) ==
  \/ \E r \in S, username \in LoginNames, password \in LoginPasswords :
       LoginStart(r, username, password)
  \/ \E r \in S : LoginWrite(r)
  \/ \E r \in S : Logout(r)
  \/ \E r \in S : GetUser(r)

\* The steps of change-password and of the admin-only user routes.
AccountSteps(S) ==
  \/ \E r \in S, currentPassword \in LoginPasswords, newPassword \in LoginPasswords :
       ChangePasswordStart(r, currentPassword, newPassword)
  \/ \E r \in S : ChangePasswordWrite(r)
  \/ \E r \in S, username \in LoginNames, password \in LoginPasswords :
       CreateUserStart(r, username, password)
  \/ \E r \in S : CreateUserWrite(r)
  \/ \E r \in S : ListUsers(r)

\* The steps of /api/register.
RegisterSteps(S) ==
  \/ \E r \in S, username \in LoginNames, password \in LoginPasswords :
       RegisterStart(r, username, password)
  \/ \E r \in S : RegisterWrite(r)

\* ===================================================== aggregation, alone
\* Records as GET /api/timesheet/data delivers them to processTimesheetData:
\* two projects, two employees, one record whose total is not the sum of its
\* billable and non-billable hours.
RawRecords ==
  { [timesheet_id |-> "T1", workDate |-> 30, projectName |-> "A", userName |-> "X",
     jobName |-> "Build", billableHours |-> 3, nonBillableHours |-> 1, totalHours |-> 4],
    [timesheet_id |-> "T2", workDate |-> 31, projectName |-> "A", userName |-> "Y",
     jobName |-> "Build", billableHours |-> 2, nonBillableHours |-> 0, totalHours |-> 2],
    [timesheet_id |-> "T3", workDate |-> 31, projectName |-> "B", userName |-> "X",
     jobName |-> "General", billableHours |-> 1, nonBillableHours |-> 0, totalHours |-> 5],
    [timesheet_id |-> "T4", workDate |-> 30, projectName |-> "B", userName |-> "Y",
     jobName |-> "General", billableHours |-> 0, nonBillableHours |-> 2, totalHours |-> 2] }

\* Records as generateSimulatedZohoRecords builds them for GET
\* /zoho/timesheet: the job is drawn from a list whose last element is null.
SimulatedZohoRecords ==
  { [timesheet_id |-> "timesheet_1", workDate |-> 31, projectName |-> "A", userName |-> "X",
     jobName |-> job, billableHours |-> 2, nonBillableHours |-> 1, totalHours |-> 3] :
    job \in {"Design", Null} }

NoResult == [called |-> FALSE] @@ processTimesheetData(<<>>)

\* processTimesheetData(data)
Process ==
  /\ ~processedData.called
  /\ processedData' = [called |-> TRUE] @@ processTimesheetData(rawData)
  /\ UNCHANGED <<variant, calendar, accounts, rawData, now, zohoCredentials,
                 zohoAuth, tables, reqs, last>>


\* The steps of the Zoho handlers that every variant has, for sessions of the
\* users in P (Anon: no session) and handlers in the slots S.
CredentialSteps(P, S) ==
  \/ \E r \in S, p \in P, body \in ConnectBodies : ConnectStart(r, p, body)
  \/ \E r \in S : ConnectWrite(r)
  \/ \E r \in S, p \in P : DisconnectStart(r, p)
  \/ \E r \in S : DisconnectWrite(r)
  \/ \E r \in S, p \in P : Status(r, p)

CredentialNext ==
  \/ CredentialSteps({Anon, AdminId}, Slots)
  \/ \E r \in Slots : ConnectExchange(r)
  \/ Tick

Init ==
  /\ variant \in Variants
  /\ now = 0
  /\ zohoCredentials = {}
  /\ zohoAuth = NoAuth
  /\ timeEntries = EmptyBag
  /\ projectHours = {}
  /\ employeeHours = {}
  /\ reqs = [r \in Slots |-> Idle]
  /\ last = NoLast
  /\ authVersion = "plain"
  /\ users = {AdminRow(CHOOSE salt \in Salts : TRUE)}
  /\ session = Anon
  /\ rawData = <<>>
  /\ processedData = NoResult
  /\ calendar = Calendar

\* The server just started with the account handlers of one version.
AccountStart(versions) ==
  /\ variant = "session"
  /\ now = 0
  /\ zohoCredentials = {}
  /\ zohoAuth = NoAuth
  /\ timeEntries = EmptyBag
  /\ projectHours = {}
  /\ employeeHours = {}
  /\ reqs = [r \in Slots |-> Idle]
  /\ last = NoLast
  /\ authVersion \in versions
  /\ users = {AdminRow(CHOOSE salt \in Salts : TRUE)}
  /\ session = Anon
  /\ rawData = <<>>
  /\ processedData = NoResult
  /\ calendar = Calendar

\* The versions with change-password: server/auth.ts, and the one with the
\* admin-only user routes.
AccountInit == AccountStart({"plain", "admin"})

AccountNext == LoginSteps(Slots) \/ AccountSteps(Slots)

AccountSpec == AccountInit /\ [][AccountNext]_vars

\* The version with /api/register.
RegisterInit == AccountStart({"open"})

RegisterNext == LoginSteps(Slots) \/ RegisterSteps(Slots)

RegisterSpec == RegisterInit /\ [][RegisterNext]_vars

\* The local times and time zones the server is started in: early, during
\* and late in the day, behind, at and ahead of UTC, on the first and on a
\* later day of the month.
Calendars ==
  {[Calendar EXCEPT !.dayOfMonth = dayOfMonth, !.hour = hour, !.zone = zone] :
     dayOfMonth \in {1, 3}, hour \in {1, 10, 22}, zone \in {-5, 0, 2}}

\* Syncs of a connected user whose upstream call delivers no record.
FixtureInit ==
  /\ variant = "session"
  /\ now = 0
  /\ zohoCredentials = {}
  /\ zohoAuth = NoAuth
  /\ timeEntries = EmptyBag
  /\ projectHours = {}
  /\ employeeHours = {}
  /\ reqs = [r \in Slots |-> Idle]
  /\ last = NoLast
  /\ authVersion = "plain"
  /\ users = {AdminRow(CHOOSE salt \in Salts : TRUE)}
  /\ session = Anon
  /\ rawData = <<>>
  /\ processedData = NoResult
  /\ calendar \in Calendars

FixtureNext ==
  \/ \E body \in CompleteBodies : ConnectStart(1, AdminId, body)
  \/ ConnectWrite(1)
  \/ SyncSteps({AdminId}, {1}, {<<>>})

FixtureSpec == FixtureInit /\ [][FixtureNext]_vars

\* processTimesheetData applied to one sequence of up to MaxInput records, as
\* the client does with the stored rows and GET /zoho/timesheet with the
\* simulated records
AggregationInit ==
  /\ variant = "session"
  /\ now = 0
  /\ zohoCredentials = {}
  /\ zohoAuth = NoAuth
  /\ timeEntries = EmptyBag
  /\ projectHours = {}
  /\ employeeHours = {}
  /\ reqs = [r \in Slots |-> Idle]
  /\ last = NoLast
  /\ authVersion = "plain"
  /\ users = {AdminRow(CHOOSE salt \in Salts : TRUE)}
  /\ session = Anon
  /\ rawData \in SeqsUpTo(RawRecords \cup SimulatedZohoRecords, MaxInput)
  /\ processedData = NoResult
  /\ calendar = Calendar

AggregationNext == Process

AggregationSpec == AggregationInit /\ [][AggregationNext]_vars

CredentialSpec == Init /\ [][CredentialNext]_vars

\* The sync handler is mounted beside the "session" variant of the Zoho
\* handlers (server/routes.ts:80).
SyncInit == Init /\ variant = "session"

\* One request at a time: every handler runs to its response before the next
\* request arrives.
Next ==
  \/ \E body \in CompleteBodies : ConnectStart(1, AdminId, body)
  \/ ConnectWrite(1)
  \/ SyncSteps({Anon, AdminId}, {1}, FetchResults)
  \/ Tick

Spec == SyncInit /\ [][Next]_vars

\* Two sync requests of the same user in flight at once: the handler in slot
\* s fetches the one-record result RaceResult(s).
RaceResult(s) ==
  {<<rec>> : rec \in {x \in UpstreamRecords : x.timesheetId = IF s = 1 THEN "Z1" ELSE "Z2"}}

RaceNext ==
  \/ \E body \in CompleteBodies : ConnectStart(1, AdminId, body)
  \/ ConnectWrite(1)
  \/ \E s \in Slots : SyncSteps({AdminId}, {s}, RaceResult(s))

RaceSpec == SyncInit /\ [][RaceNext]_vars

\* Two users, each with its own session: user s connects and syncs in slot
\* s, so that a sync of one user can run beside a sync of the other.
IsolationNext ==
  \E s \in Slots :
    \/ \E body \in CompleteBodies : ConnectStart(s, s, body)
    \/ ConnectWrite(s)
    \/ SyncSteps({s}, {s}, RaceResult(s))

IsolationSpec == SyncInit /\ [][IsolationNext]_vars

\* Two sessions on one server: user 1 connects and disconnects, user 2 only
\* asks for its status.
TenantNext ==
  \/ \E r \in Slots, body \in ConnectBodies : ConnectStart(r, AdminId, body)
  \/ \E r \in Slots : ConnectExchange(r)
  \/ \E r \in Slots : ConnectWrite(r)
  \/ \E r \in Slots : DisconnectStart(r, AdminId)
  \/ \E r \in Slots : DisconnectWrite(r)
  \/ \E r \in Slots, p \in Users : Status(r, p)

TenantSpec == Init /\ [][TenantNext]_vars

\* The Zoho handlers of the "session" variant, two at a time, beside the
\* sync handler: connect, disconnect, status and sync of one user.
GateNext ==
  \/ CredentialSteps({AdminId}, Slots)
  \/ SyncSteps({AdminId}, {1}, RaceResult(1))

GateSpec == SyncInit /\ [][GateNext]_vars

\* ================================================================= claims
\* The step in which the handler in slot r answers and leaves.
Answers(r) == Running(reqs[r]) /\ reqs'[r] = Idle

\* C1: a sync whose upstream call failed (401 or any other failure) answers
\* with an error in its next step and the time entries and both summary
\* tables are after that step what they were before it; the handler never
\* reaches the delete.
C1_FailedFetchKeepsRows ==
  [][\A r \in Slots :
       (reqs[r].op = "sync" /\ reqs[r].fetch \in FetchFailures /\ reqs'[r] # reqs[r])
       => /\ Answers(r)
          /\ last'.op = "sync" /\ last'.resp.success = "false"
          /\ last'.resp.status \in {401, 500}
          /\ tables' = tables]_vars

\* C1 witness: a sync has answered that the fetch failed while the user's
\* rows of an earlier sync are still stored.
C1_Witness ==
  /\ last.op = "sync" /\ last.resp.message = Msg.FetchFailed
  /\ UserEntries(last.user) # EmptyBag
  /\ UserProjects(last.user) # {} /\ UserEmployees(last.user) # {}

\* C2: a fetch that failed with HTTP 401 is answered with the expired-token
\* error (401, "Zoho access token expired..."), and every other fetch
\* failure is answered with a response of another status and another message.
C2_ExpiredIsDistinct ==
  [][\A r \in Slots :
       (reqs[r].op = "sync" /\ reqs[r].pc = "fetched" /\ Answers(r))
       => IF reqs[r].fetch = "http_401"
          THEN last'.resp = Json(401, FALSE, Msg.TokenExpired)
          ELSE /\ last'.resp.success = "false"
               /\ last'.resp.status # 401
               /\ last'.resp.message # Msg.TokenExpired]_vars

\* C2 witness: a sync has answered with the expired-token error.
C2_Witness == last.op = "sync" /\ last.resp = Json(401, FALSE, Msg.TokenExpired)

\* The step in which the sync in slot r answers with success.
SyncSucceeds(r) ==
  /\ reqs[r].op = "sync" /\ Answers(r)
  /\ last'.op = "sync" /\ last'.resp.success = "true"

\* C3: when a sync of user u that ran with no other request of u in flight
\* answers with success, the time entries stored for u are exactly the
\* entries of its aggregation result, one row per entry, and the project and
\* employee summaries stored for u are exactly its summaries, each carrying
\* the time of this sync: nothing an earlier sync wrote remains.
C3_StoreIsThisSync ==
  [][\A r \in Slots, u \in Users :
       (SyncSucceeds(r) /\ ~reqs[r].overlap /\ reqs[r].user = u)
       => LET processed == processTimesheetData(reqs[r].data)
          IN /\ UserEntries(u)' =
                  SeqToBag([i \in 1..Len(processed.timeEntries) |->
                              EntryRow(u, processed.timeEntries[i])])
             /\ {Hours(row) : row \in UserProjects(u)'} =
                  {processed.projectHours[i] : i \in 1..Len(processed.projectHours)}
             /\ Cardinality(UserProjects(u)') = Len(processed.projectHours)
             /\ {Hours(row) : row \in UserEmployees(u)'} =
                  {processed.employeeHours[i] : i \in 1..Len(processed.employeeHours)}
             /\ Cardinality(UserEmployees(u)') = Len(processed.employeeHours)
             /\ \A row \in UserEmployees(u)' : row.lastSyncDate = reqs[r].stamp
             /\ \A row \in UserProjects(u)' : row.lastSyncDate <= reqs[r].stamp]_vars

\* C3 witness: a sync of one record that found the rows of an earlier sync
\* has answered, at a later time than any row it found was written; the
\* user has one entry and one summary of each kind.
C3_Witness ==
  /\ last.op = "sync" /\ last.resp.success = "true" /\ ~last.overlap
  /\ last.replaced /\ Len(last.result) = 1
  /\ BagCardinality(UserEntries(last.user)) = 1
  /\ \A row \in UserProjects(last.user) \cup UserEmployees(last.user) :
       row.lastSyncDate = MaxTime

\* Summary row `row` of user u carries the sums over the stored entries of u
\* whose column `key` has the row's name.
RECURSIVE BagSum(_, _, _)
BagSum(bag, rows, f) ==
  IF rows = {} THEN 0
  ELSE LET e == CHOOSE x \in rows : TRUE
       IN bag[e] * e[f] + BagSum(bag, rows \ {e}, f)

SumsEntries(u, row, key) ==
  LET own == {e \in DOMAIN timeEntries : e.userId = u /\ e[key] = row.name}
  IN /\ row.billableHours = BagSum(timeEntries, own, "billableHours")
     /\ row.nonBillableHours = BagSum(timeEntries, own, "nonBillableHours")
     /\ row.totalHours = BagSum(timeEntries, own, "totalHours")

SummariesMatchEntries(u) ==
  /\ \A row \in UserProjects(u) : SumsEntries(u, row, "project")
  /\ \A row \in UserEmployees(u) : SumsEntries(u, row, "employee")
  /\ \A e \in DOMAIN UserEntries(u) :
       /\ \E row \in UserProjects(u) : row.name = e.project
       /\ \E row \in UserEmployees(u) : row.name = e.employee

\* C4: at the end of every successful sync of user u, every project summary
\* and every employee summary stored for u carries the sums of billable,
\* non-billable and total hours over the stored entries of u with that
\* project or employee, and every stored entry of u has both summaries.
C4_SummariesMatchEntries ==
  [][\A r \in Slots, u \in Users :
       (SyncSucceeds(r) /\ reqs[r].user = u) => SummariesMatchEntries(u)']_vars

\* C5: a successful sync of a non-empty record list R that directly follows a
\* successful sync of the same user and the same R, with no other request of
\* the user in flight, leaves the user's time entries, project summaries and
\* employee summaries exactly as it found them: the same rows with the same
\* content, none duplicated.
C5_SecondSyncIdentical ==
  [][\A r \in Slots, u \in Users :
       (/\ SyncSucceeds(r) /\ reqs[r].user = u
        /\ reqs[r].repeat /\ ~reqs[r].overlap /\ reqs[r].result # <<>>)
       => UserRows(u)' = reqs[r].before]_vars

\* --------------------------------------------------------- Zoho credentials
Principals == {Anon} \cup Users

\* No handler is in flight.
Quiet == \A s \in Slots : ~Running(reqs[s])

\* The rows of user u.
UserCredentials(u) == {c \in zohoCredentials : c.userId = u}

\* The sessions whose status request reads the credentials of user u.
StatusSessions(u) == {p \in Principals : CredentialUser(p) = u /\ ~Rejected(p)}

\* C6: when the request answered last is a successful disconnect of user u
\* that overlapped no other request of u, and no handler is in flight, every
\* answer a status request of u can get reports connected:false.
C6_DisconnectThenStatus ==
  (last.op = "disconnect" /\ last.resp.success = "true" /\ ~last.overlap /\ Quiet)
  => \A p \in StatusSessions(last.user) :
       \A response \in StatusResponses(p) : response.connected = "false"

\* C7: the step in which a disconnect answers with success leaves every
\* credential row in place with its clientId, clientSecret and organization,
\* and the access token, refresh token and expiry of the row it selected are
\* null; in the in-memory variant the same holds of the one stored credential.
C7_DisconnectKeepsClient ==
  [][/\ \A r \in Slots :
          (reqs[r].op = "disconnect" /\ Answers(r) /\ last'.resp.success = "true")
          => /\ {c.id : c \in zohoCredentials'} = {c.id : c \in zohoCredentials}
             /\ \A c \in zohoCredentials : \E d \in zohoCredentials' :
                  /\ d.id = c.id /\ d.userId = c.userId
                  /\ d.clientId = c.clientId /\ d.clientSecret = c.clientSecret
                  /\ d.organization = c.organization
                  /\ c.id = reqs[r].existing
                       => /\ d.accessToken = Null /\ d.refreshToken = Null
                          /\ d.expiresAt = NoTime
     /\ (variant = "memory" /\ last'.op = "disconnect" /\ zohoAuth.present)
          => /\ zohoAuth'.accessToken = Null /\ zohoAuth'.refreshToken = Null
             /\ zohoAuth'.expiresAt = NoTime
             /\ zohoAuth'.clientId = zohoAuth.clientId
             /\ zohoAuth'.clientSecret = zohoAuth.clientSecret
             /\ zohoAuth'.organization = zohoAuth.organization]_vars

\* User u has a stored access token that is not null and whose expiry has
\* not passed.
LiveToken(u) ==
  IF variant = "memory"
  THEN zohoAuth.present /\ ~Falsy(zohoAuth.accessToken) /\ ~Expired(zohoAuth.expiresAt)
  ELSE \E c \in UserCredentials(u) : ~Falsy(c.accessToken) /\ ~Expired(c.expiresAt)

\* C8: a step in which a status request of a user with at most one credential
\* row is answered changes no stored credential, and its answer reports
\* connected:true exactly when the user's access token is not null and its
\* expiry has not passed.
C8_StatusIsExactRead ==
  [][\A u \in Principals :
       (/\ last'.op = "status" /\ last' # last /\ last'.user = u
        /\ last'.resp.status = 200 /\ Cardinality(UserCredentials(u)) <= 1)
       => /\ zohoCredentials' = zohoCredentials /\ zohoAuth' = zohoAuth
          /\ (last'.resp.connected = "true") <=> LiveToken(u)]_vars

\* C9: when the request answered last is a successful connect of user u that
\* overlapped no other request of u, and no handler is in flight, every
\* answer a status request of u can get reports connected:true.
C9_ConnectThenStatus ==
  (last.op = "connect" /\ last.resp.success = "true" /\ ~last.overlap /\ Quiet)
  => \A p \in StatusSessions(last.user) :
       \A response \in StatusResponses(p) : response.connected = "true"

\* C10: the step in which a connect whose token exchange failed answers,
\* answers with success, and every row it wrote carries the clientId,
\* clientSecret and organization of the request and no access token.
C10_FailedExchangeStoresNoToken ==
  [][\A r \in Slots :
       (reqs[r].op = "connect" /\ reqs[r].degraded /\ Answers(r))
       => /\ last'.resp.success = "true"
          /\ \A c \in zohoCredentials' \ zohoCredentials :
               /\ c.clientId = reqs[r].body.clientId
               /\ c.clientSecret = reqs[r].body.clientSecret
               /\ c.organization = reqs[r].body.organization
               /\ Falsy(c.accessToken)]_vars

\* ------------------------------------------------------------- uniqueness
\* C17: whenever no handler is in flight, no two project summary rows share
\* user and name and no two employee summary rows share user and name.
C17_OneSummaryPerKey ==
  Quiet => /\ \A a, b \in projectHours :
                (a.userId = b.userId /\ a.name = b.name) => a = b
           /\ \A a, b \in employeeHours :
                (a.userId = b.userId /\ a.name = b.name) => a = b

\* C18: whenever no handler is in flight, no user has two credential rows.
C18_OneCredentialPerUser ==
  Quiet => \A u \in Users : Cardinality(UserCredentials(u)) <= 1


\* C13: every stored time entry row has totalHours = billableHours +
\* nonBillableHours, whatever records the fetch delivered.
C13_TotalIsBillablePlusNonBillable ==
  \A row \in BagToSet(timeEntries) :
    row.totalHours = row.billableHours + row.nonBillableHours

\* C11: a Zoho connect, disconnect or status request that arrives without an
\* authenticated session is answered with 401 at once, and the step leaves
\* the stored credentials as they were.
C11_UnauthenticatedIsRejected ==
  [][\A r \in Slots :
       (\/ \E body \in ConnectBodies : ConnectStart(r, Anon, body)
        \/ DisconnectStart(r, Anon)
        \/ Status(r, Anon))
       => /\ last'.resp.status = 401
          /\ UNCHANGED <<reqs, zohoCredentials, zohoAuth>>]_vars

\* The sum of field f over the elements of s at the indices I.
RECURSIVE FieldSum(_, _, _)
FieldSum(s, I, f) ==
  IF I = {} THEN 0
  ELSE LET i == CHOOSE j \in I : TRUE IN s[i][f] + FieldSum(s, I \ {i}, f)

HourFields == {"billableHours", "nonBillableHours", "totalHours"}

\* summaries holds exactly one summary per value of the field key in the
\* records R, each with the sums of the hours of the records of that value.
PartitionsBy(summaries, R, key) ==
  /\ {summaries[i].name : i \in 1..Len(summaries)} = {R[i][key] : i \in 1..Len(R)}
  /\ \A i, j \in 1..Len(summaries) : summaries[i].name = summaries[j].name => i = j
  /\ \A i \in 1..Len(summaries), f \in HourFields :
       summaries[i][f] = FieldSum(R, {k \in 1..Len(R) : R[k][key] = summaries[i].name}, f)

\* C14: processTimesheetData returns exactly one project summary per distinct
\* project name and one employee summary per distinct employee name of its
\* input, each holding the sums of the billable, non-billable and total hours
\* of the records of that name.
C14_SummariesPartitionRecords ==
  processedData.called =>
    /\ PartitionsBy(processedData.projectHours, rawData, "projectName")
    /\ PartitionsBy(processedData.employeeHours, rawData, "userName")

\* An input of three records of two projects and two employees was aggregated.
C14_Witness ==
  /\ processedData.called
  /\ Len(rawData) = 3
  /\ Len(processedData.projectHours) = 2
  /\ Len(processedData.employeeHours) = 2

\* C15: processTimesheetData returns one entry per record, in the order of
\* the records, the i-th with the i-th record's id, date, project, employee
\* and hours; the sums of the hours over the entries are those over the
\* records, and a second run on the same records returns the same entries.
C15_EntriesAreTheRecords ==
  processedData.called =>
    LET entries == processedData.timeEntries
    IN /\ Len(entries) = Len(rawData)
       /\ \A i \in 1..Len(rawData) :
            /\ entries[i].id = rawData[i].timesheet_id
            /\ entries[i].date = rawData[i].workDate
            /\ entries[i].project = rawData[i].projectName
            /\ entries[i].employee = rawData[i].userName
            /\ \A f \in HourFields : entries[i][f] = rawData[i][f]
       /\ \A f \in HourFields :
            FieldSum(entries, DOMAIN entries, f) = FieldSum(rawData, DOMAIN rawData, f)
       /\ processTimesheetData(rawData).timeEntries = entries

\* Records in an order that is not their order by id were processed, among
\* them one whose total is not the sum of its parts.
C15_Witness ==
  /\ processedData.called
  /\ Len(rawData) = 3
  /\ rawData[1].timesheet_id = "T3" /\ rawData[2].timesheet_id = "T1"
  /\ processedData.timeEntries[1].totalHours = 5

\* C16: the stats of processTimesheetData hold the sums of the billable and
\* of the non-billable hours of the records, their sum as the total, and the
\* numbers of distinct project and employee names; for no records the five
\* are 0 and the three lists are empty.
C16_StatsAreSumsAndCounts ==
  processedData.called =>
    LET stats == processedData.stats
    IN /\ stats.billableHours = FieldSum(rawData, DOMAIN rawData, "billableHours")
       /\ stats.nonBillableHours = FieldSum(rawData, DOMAIN rawData, "nonBillableHours")
       /\ stats.totalHours = stats.billableHours + stats.nonBillableHours
       /\ stats.activeProjects =
            Cardinality({rawData[i].projectName : i \in DOMAIN rawData})
       /\ stats.activeEmployees =
            Cardinality({rawData[i].userName : i \in DOMAIN rawData})
       /\ rawData = <<>> =>
            /\ stats = [billableHours |-> 0, nonBillableHours |-> 0, totalHours |-> 0,
                        activeProjects |-> 0, activeEmployees |-> 0]
            /\ processedData.timeEntries = <<>>
            /\ processedData.projectHours = <<>>
            /\ processedData.employeeHours = <<>>

\* Stats were computed for records whose totals do not add up to the sum of
\* their billable and non-billable hours.
C16_Witness ==
  /\ processedData.called
  /\ processedData.stats.activeProjects = 2
  /\ processedData.stats.activeEmployees = 1
  /\ processedData.stats.totalHours # FieldSum(rawData, DOMAIN rawData, "totalHours")

\* C12: every step that adds a row to users is the write of a user creation
\* whose handler was admitted with the session of the user named admin.
C12_OnlyAdminCreatesUsers ==
  [][\A row \in users' :
       row.id \notin {u.id : u \in users}
       => \E r \in Slots :
            /\ reqs[r].op = "create-user" /\ Answers(r)
            /\ reqs[r].user # Anon
            /\ UserRow(reqs[r].user).username = AdminUsername]_vars

\* The step is the arrival of a request of kind op in slot r: its handler
\* answers at once or occupies the slot.
Arrives(r, op) ==
  /\ Free(r)
  /\ \/ reqs'[r].op = op
     \/ reqs' = reqs /\ last'.op = op

\* C19: a change-password request leaves the stored hashes alone in the step
\* in which it arrives; without a session it is answered 401 with the
\* not-authenticated message, with a session and a current password that
\* does not match the stored hash it is answered 400 with the
\* incorrect-password message, and it goes on only with a session and a
\* matching current password.  Every step that changes a stored hash is the
\* write of such a handler for the user of its session, it stores a hash of
\* the new password, and when no other handler of that user was in flight the
\* supplied current password matches the hash it replaces.  The two messages
\* differ.
C19_PasswordChangeIsGuarded ==
  [][/\ \A r \in Slots :
          Arrives(r, "change-password") =>
            \A currentPassword \in LoginPasswords, newPassword \in LoginPasswords :
              ChangePasswordStart(r, currentPassword, newPassword) =>
                /\ users' = users
                /\ ReqUser = Anon =>
                     /\ reqs' = reqs
                     /\ last'.resp.status = 401 /\ last'.resp.success = "false"
                     /\ last'.resp.message \in {Msg.NotAuthenticated, Msg.AuthRequired}
                /\ ( /\ ReqUser # Anon
                     /\ ~Falsy(currentPassword) /\ ~Falsy(newPassword)
                     /\ ~comparePasswords(currentPassword, UserRow(ReqUser).password) ) =>
                     /\ reqs' = reqs
                     /\ last'.resp = Json(400, FALSE, AccountMsg.PasswordIncorrect)
                /\ Running(reqs'[r]) =>
                     /\ ReqUser # Anon /\ reqs'[r].user = ReqUser
                     /\ comparePasswords(currentPassword, UserRow(ReqUser).password)
     /\ \A u \in users :
          (\E v \in users' : v.id = u.id /\ v.password # u.password) =>
            \E r \in Slots :
              /\ reqs[r].op = "change-password" /\ Answers(r)
              /\ reqs[r].user = u.id
              /\ last'.resp = Json(200, TRUE, AccountMsg.PasswordChanged)
              /\ \A v \in users' : v.id = u.id => comparePasswords(reqs[r].password, v.password)
              /\ ~reqs[r].overlap => comparePasswords(reqs[r].current, u.password)
     /\ AccountMsg.PasswordIncorrect \notin {Msg.NotAuthenticated, Msg.AuthRequired}]_vars

\* A change-password with no other handler of the user in flight has been
\* answered with success: the user's stored hash is that of another password
\* than the one set at startup.
C19_Witness ==
  /\ last.op = "change-password" /\ last.resp.message = AccountMsg.PasswordChanged
  /\ ~last.overlap
  /\ \E u \in users :
       /\ u.id = last.user
       /\ ~comparePasswords(DefaultPassword, u.password)
       /\ \E password \in Passwords : comparePasswords(password, u.password)

RequestedDays(dateRange) ==
  LET range == calculateDateRangeFromString(dateRange)
  IN toISODate(range.startDate)..toISODate(range.endDate)

\* C23: the records a sync goes on with after an upstream call that
\* delivered none are not empty, each is dated on a day of the requested
\* interval, and each day of the interval has between 2 and 4 of them.
C23_FixtureCoversInterval ==
  \A r \in Slots :
    (reqs[r].op = "sync" /\ reqs[r].pc = "clear" /\ reqs[r].result = <<>>) =>
      LET data == reqs[r].data
          days == RequestedDays(reqs[r].dateRange)
      IN /\ data # <<>>
         /\ \A i \in DOMAIN data : data[i].workDate \in days
         /\ \A day \in days :
              Cardinality({i \in DOMAIN data : data[i].workDate = day}) \in 2..4

\* The time entry rows a sync handler inserts for the records it holds.
OwnEntries(q) ==
  LET entries == processTimesheetData(q.data).timeEntries
  IN SeqToBag([i \in 1..Len(entries) |-> EntryRow(q.user, entries[i])])

\* C21: the delete and the insert of a sync are separate steps that another
\* sync of the same user can run between.  After the insert of a handler
\* that ran alone the user's time entries are exactly that handler's; after
\* the insert of a handler that shared its time with another they are its
\* own rows and possibly more, so rows of two syncs can be stored together
\* (the witness), and they are only when the two handlers overlapped.
C21_MixedRowsOnlyWhenOverlapped ==
  [][\A r \in Slots, u \in Users :
       (/\ reqs[r].op = "sync" /\ reqs[r].pc = "entries" /\ reqs[r].user = u
        /\ reqs'[r].pc = "selectProjects")
       => /\ OwnEntries(reqs[r]) \sqsubseteq UserEntries(u)'
          /\ ~reqs[r].overlap => UserEntries(u)' = OwnEntries(reqs[r])]_vars

\* Two syncs of one user with different records have both run to their
\* success response, and the user's stored time entries are the rows of
\* both: neither the entries of the one nor the entries of the other.
C21_Witness ==
  /\ Quiet
  /\ last.op = "sync" /\ last.resp.success = "true" /\ last.overlap
  /\ {e.zohoTimesheetId : e \in DOMAIN UserEntries(AdminId)} = {"Z1", "Z2"}
  /\ {row.name : row \in UserEmployees(AdminId)} = {"X", "Y"}

NoRows == <<EmptyBag, {}, {}>>

C24_IncompleteConnectIsRejected ==
  [][\A r \in Slots :
       Arrives(r, "connect") =>
         \A p \in Principals, body \in IncompleteBodies :
           ConnectStart(r, p, body) =>
             /\ last'.resp = IF Rejected(p) THEN Unauthenticated
                             ELSE Json(400, FALSE, Msg.FieldsRequired)
             /\ last'.resp.success = "false"
             /\ UNCHANGED <<reqs, zohoCredentials, zohoAuth>>]_vars

\* A connected user has sent an incomplete connect request: it was answered
\* 400 and the credential row is still there.
C24_Witness ==
  /\ Quiet /\ last.op = "connect" /\ last.user = AdminId
  /\ last.resp = Json(400, FALSE, Msg.FieldsRequired)
  /\ Cardinality(UserCredentials(AdminId)) = 1

FallbackJob == "General"

\* C26: every time entry built from a record whose job label is absent
\* carries the fallback job string, and no entry has an empty or null job.
C26_AbsentJobFallsBack ==
  processedData.called =>
    \A i \in DOMAIN rawData :
      /\ ~Falsy(processedData.timeEntries[i].job)
      /\ Falsy(rawData[i].jobName) => processedData.timeEntries[i].job = FallbackJob

\* C30: after a change-password of user u from p to q that ran with no other
\* handler of u in flight and was answered with success, the stored hash of
\* u matches q and, when q differs from p, does not match p; a login with
\* u's name that arrives next is answered 401 with p and goes on with q, and
\* a login that has gone on is answered 200.  A change-password answered
\* without success leaves every stored hash as it was, so every password
\* that matched before still matches.
C30_LoginFollowsPasswordChange ==
  [][/\ (last.changed # <<>> /\ ~last.overlap) =>
          \A u \in users :
            u.id = last.user =>
              /\ comparePasswords(last.changed[2], u.password)
              /\ last.changed[1] # last.changed[2] =>
                   ~comparePasswords(last.changed[1], u.password)
              /\ \A r \in Slots :
                   Arrives(r, "login") =>
                     /\ ( /\ last.changed[1] # last.changed[2]
                          /\ LoginStart(r, u.username, last.changed[1]) ) =>
                          /\ reqs' = reqs
                          /\ last'.resp = Json(401, FALSE, AccountMsg.InvalidLogin)
                     /\ LoginStart(r, u.username, last.changed[2]) =>
                          /\ Running(reqs'[r])
                          /\ reqs'[r].existing = u.id
     /\ \A r \in Slots :
          (reqs[r].op = "login" /\ Answers(r)) => last'.resp.status = 200
     /\ ( /\ last' # last /\ last'.op = "change-password"
          /\ last'.resp.status # 200 ) => users' = users]_vars

\* A change-password from the startup password to another one has been
\* answered with success, and a login with the new password that arrived
\* next has gone on to req.login.
C30_Witness ==
  /\ last.changed = <<DefaultPassword, "secret2">> /\ ~last.overlap
  /\ \E r \in Slots :
       /\ reqs[r].op = "login" /\ reqs[r].pc = "login"
       /\ reqs[r].password = "secret2" /\ reqs[r].existing = last.user

\* C27: every step that changes a time entry, project summary or employee
\* summary row of user b is a step of a sync handler of b; the steps of a
\* sync of another user, up to its success or its failure, leave the rows
\* of b as they are.
C27_SyncLeavesOtherUsersRows ==
  [][\A b \in Users :
       /\ UserRows(b)' # UserRows(b) =>
            \E r \in Slots : /\ reqs[r].op = "sync" /\ reqs[r].user = b
                             /\ reqs'[r] # reqs[r]
       /\ \A r \in Slots :
            (reqs[r].op = "sync" /\ reqs[r].user # b /\ reqs'[r] # reqs[r])
            => UserRows(b)' = UserRows(b)]_vars

\* User 2 has rows; a sync of user 1 has deleted the rows of user 1 and then
\* failed.
C27_Witness ==
  /\ last.op = "sync" /\ last.user = 1 /\ last.replaced /\ last.lost
  /\ UserRows(1) = NoRows
  /\ BagCardinality(UserEntries(2)) = 1
  /\ Cardinality(UserProjects(2)) = 1 /\ Cardinality(UserEmployees(2)) = 1

\* C28: connect and disconnect requests of user 1 leave the answers a status
\* request of user 2 can get as they were, in every variant of the Zoho
\* handlers.
C28_OthersStatusUnchanged ==
  [][StatusResponses(2)' = StatusResponses(2)]_vars

\* C29: a sync request that carries no dateRange, or whose user has no
\* credential row or only rows with a null access token, is answered 400 in
\* the step in which it arrives: no handler goes on to the fetch or the
\* delete and the stored rows are unchanged.  So is every sync request of a
\* user that arrives after a disconnect of that user was answered with
\* success and before a later connect is.
C29_SyncNeedsConnection ==
  [][\A r \in Slots :
       Arrives(r, "sync") =>
         \A p \in Users, dateRange \in SyncDateRanges :
           ( /\ SyncStart(r, p, dateRange)
             /\ \/ Falsy(dateRange)
                \/ \A c \in UserCredentials(p) : Falsy(c.accessToken)
                \/ /\ last.op = "disconnect" /\ last.user = p
                   /\ last.resp.success = "true" /\ ~last.overlap )
           => /\ last'.resp.status = 400 /\ last'.resp.success = "false"
              /\ UNCHANGED <<reqs, tables>>]_vars

====
